---- MODULE Spec2Model ----
(***************************************************************************)
(* Event dispatcher, timer bank and IRQ controller of the GBA core         *)
(* (src/gba/gba.c).  The machine state is the CPU's cycle slots, the four  *)
(* timers, the timer counter words and IE/IF/IME of the I/O register bank, *)
(* timersEnabled and springIRQ.  The C functions are operators on a record *)
(* of that state; the actions apply them.                                  *)
(***************************************************************************)
EXTENDS Integers, Naturals, Sequences, FiniteSets, TLC

\* ---------------------------------------------------------------- constants

INT_MAX == 2147483647
INT_MIN == (-2147483647) - 1
CounterModulus == 65536

IRQ_VBLANK == 0
IRQ_TIMER0 == 3
IRQ_GAMEPAK == 13

IRQKinds == IRQ_VBLANK..IRQ_GAMEPAK

\* enum GBALogLevel
LogLevels == {"STUB", "DEBUG", "INFO", "WARN", "ERROR", "FATAL"}

TimerIds == 0..3

\* ------------------------------------------------------------------- bounds

MaxOps == 3
MaxIter == 3

Reloads == {65534, 65535}
Controls == {0, 128, 192, 132, 129, 4}
Deltas == {1, 64, 65536}
IEValues == {{}, {0}, {3, 4}, IRQKinds}
Predictions == {INT_MAX}
CascadePairs == {0}
MaxPatches == 3
RomSizes == {2, 3}
PatchSizes == {0, 1, 3, 4}

\* --------------------------------------------------- int32_t / uint16_t

\* int32_t a + b, two's complement
Add32(a, b) ==
    IF b >= 0
    THEN IF a > INT_MAX - b THEN ((a - INT_MAX) + (b - INT_MAX)) - 2 ELSE a + b
    ELSE IF a < INT_MIN - b THEN (a - INT_MIN) + (b - INT_MIN) ELSE a + b

AddOverflows(a, b) ==
    IF b >= 0 THEN a > INT_MAX - b ELSE a < INT_MIN - b

\* int32_t a - b, two's complement
Sub32(a, b) ==
    IF b >= 0
    THEN IF a < INT_MIN + b THEN ((a - INT_MIN) + (INT_MAX - b)) + 1 ELSE a - b
    ELSE IF a > INT_MAX + b THEN ((a - INT_MAX) + (INT_MIN - b)) - 1 ELSE a - b

SubOverflows(a, b) ==
    IF b >= 0 THEN a < INT_MIN + b ELSE a > INT_MAX + b

RECURSIVE Pow2(_)
Pow2(n) == IF n = 0 THEN 1 ELSE 2 * Pow2(n - 1)

\* x >> n on int32_t (arithmetic shift)
Shr(x, n) == x \div Pow2(n)

\* store of an int expression into a uint16_t register word
U16(x) == x % CounterModulus

Min(a, b) == IF a < b THEN a ELSE b

\* F applied to the value of x: a C local, computed once and then used.
With(x, F(_)) == CHOOSE r \in {F(y) : y \in {x}} : TRUE

\* ---------------------------------------------------------------- variables

VARIABLES
    cycles,         \* cpu->cycles
    nextEvent,      \* cpu->nextEvent
    halted,         \* cpu->halted
    timers,         \* gba->timers[0..3]
    tmcnt,          \* gba->memory.io[REG_TMxCNT_LO >> 1]
    regIE,          \* gba->memory.io[REG_IE >> 1], as the set of its set bits
    regIF,          \* gba->memory.io[REG_IF >> 1], as the set of its set bits
    regIME,         \* gba->memory.io[REG_IME >> 1]
    timersEnabled,  \* gba->timersEnabled, as the set of its set bits
    springIRQ,      \* gba->springIRQ
    pc,             \* "cpu": the interpreter runs; "loop": inside the do-while
                    \* of GBAProcessEvents; "aborted": the process has ended
    iter,           \* iterations done in the current call, up to MaxIter
    cpuIRQ,         \* ARMRaiseIRQ calls made by the last operation
    swept,          \* the cycles value the last iteration handed on
    timersRet,      \* return value of the last GBATimersProcessEvents
    othersRet,      \* least prediction of Video, Audio, DMA, SIO, last sweep
    fired,          \* timers that overflowed in the last iteration
    pending,        \* count-up timers whose counter a cascade wrapped to 0 in
                    \* the last iteration and that did not overflow in it
    last,           \* the last operation and its timer / IRQ argument
    scen,           \* progress of the enable / advance / dispatch scenario
    ops,            \* operations issued by the CPU so far
    cart,           \* memory.rom, memory.romSize, pristineRomSize and the
                    \* anonymous mappings made and still mapped
    patch,          \* the patch the last GBAApplyPatch was given
    audio,          \* gba->audio: enable, the routing and timer of each FIFO
    sampled,        \* the GBAAudioSampleFIFO calls of the last iteration
    carried,        \* enabled timers whose counter word a cascade took from
                    \* 0xFFFF to 0 in the last iteration
    logger,         \* gba->logLevel, and whether gba->logHandler and
                    \* gba->debugger are set
    logged          \* what the last log call or stub hit did

\* What the operations of the program leave alone: the cartridge image, the
\* audio set-up and the logging set-up.
hostVars == <<cart, patch, audio, logger, logged>>

vars == <<cycles, nextEvent, halted, timers, tmcnt, regIE, regIF, regIME,
          timersEnabled, springIRQ, pc, iter, cpuIRQ, swept, timersRet,
          othersRet, fired, pending, last, scen, ops, hostVars, sampled,
          carried>>

\* memset(gba->timers, 0, sizeof(gba->timers))
ZeroTimer ==
    [enable |-> FALSE, countUp |-> FALSE, doIrq |-> FALSE, prescaleBits |-> 0,
     reload |-> 0, oldReload |-> 0, overflowInterval |-> 0,
     nextEvent |-> 0, lastEvent |-> 0]

\* Sound is off.
NoAudio ==
    [enable |-> FALSE, chALeft |-> FALSE, chARight |-> FALSE, chATimer |-> 0,
     chBLeft |-> FALSE, chBRight |-> FALSE, chBTimer |-> 0]

NoScen ==
    [phase |-> "none", t |-> 0, count |-> 0, ifBefore |-> FALSE, at |-> 0]

\* The machine as the C functions see it; irqs counts ARMRaiseIRQ calls, ub
\* records a signed overflow, fired the timers that overflowed, wrapped the
\* enabled timers whose counter word a cascade took from 0xFFFF to 0, samples
\* the GBAAudioSampleFIFO calls.
G ==
    [cycles |-> cycles, nextEvent |-> nextEvent, halted |-> halted,
     timers |-> timers, tmcnt |-> tmcnt, regIE |-> regIE, regIF |-> regIF,
     regIME |-> regIME, timersEnabled |-> timersEnabled,
     springIRQ |-> springIRQ, irqs |-> 0, ub |-> FALSE, fired |-> {},
     wrapped |-> {}, audio |-> audio, samples |-> <<>>]

GBAInit ==
    /\ cycles = 0
    /\ nextEvent = 0
    /\ halted = FALSE
    /\ timers = [t \in TimerIds |-> ZeroTimer]
    /\ tmcnt = [t \in TimerIds |-> 0]
    /\ regIE = {}
    /\ regIF = {}
    /\ regIME = 0
    /\ timersEnabled = {}
    /\ springIRQ = FALSE

\* The interpreter is about to run; nothing has been dispatched yet.
Fresh ==
    /\ pc = "cpu"
    /\ iter = 0
    /\ cpuIRQ = 0
    /\ swept = 0
    /\ timersRet = INT_MAX
    /\ othersRet = INT_MAX
    /\ fired = {}
    /\ pending = {}
    /\ last = [op |-> "GBAInit", arg |-> 0]
    /\ scen = NoScen
    /\ ops = 0
    /\ sampled = <<>>
    /\ carried = {}

\* gba->pristineRom as a value of memory.rom; the n-th anonymous mapping is n.
PristineRom == 0

NoPatch == [outputSize |-> 0, applyPatch |-> FALSE]

\* GBALoadROM of a file of the given size.
GBALoadROM(size) ==
    [rom |-> PristineRom, romSize |-> size, pristineRomSize |-> size,
     mapped |-> {}, maps |-> 0]

\* No patch is in play: the ROM is as loaded.
\* gba->logLevel = GBA_LOG_INFO | GBA_LOG_WARN | GBA_LOG_ERROR | GBA_LOG_FATAL,
\* gba->debugger = 0, and no log handler
DefaultLogger ==
    [logLevel |-> {"INFO", "WARN", "ERROR", "FATAL"}, logHandler |-> FALSE,
     debugger |-> FALSE]

NothingLogged ==
    [level |-> "none", handled |-> FALSE, printed |-> FALSE,
     entered |-> FALSE]

HostInit ==
    /\ cart = GBALoadROM(2)
    /\ patch = NoPatch
    /\ audio = NoAudio
    /\ logger = DefaultLogger
    /\ logged = NothingLogged

Init == GBAInit /\ Fresh /\ HostInit

\* ------------------------------------------------------------ IRQ controller

ARMRaiseIRQ(g) == [g EXCEPT !.irqs = @ + 1]

\* GBARaiseIRQ that leaves cpu->halted alone
GBARaiseIRQKeepsHalted(g, irq) ==
    With([g EXCEPT !.regIF = @ \cup {irq}],
         LAMBDA g1 : IF g1.regIME # 0 /\ irq \in g1.regIE
                     THEN ARMRaiseIRQ(g1) ELSE g1)

GBARaiseIRQ(g, irq) ==
    With([g EXCEPT !.regIF = @ \cup {irq}, !.halted = FALSE],
         LAMBDA g1 : IF g1.regIME # 0 /\ irq \in g1.regIE
                     THEN ARMRaiseIRQ(g1) ELSE g1)

\* GBAWriteIE that acknowledges the pending IRQs it enables
GBAWriteIEAcknowledges(g, value) ==
    IF g.regIME # 0 /\ (value \cap g.regIF) # {}
    THEN [ARMRaiseIRQ(g) EXCEPT !.regIF = @ \ value]
    ELSE g

GBAWriteIE(g, value) ==
    IF g.regIME # 0 /\ (value \cap g.regIF) # {} THEN ARMRaiseIRQ(g) ELSE g

GBAWriteIME(g, value) ==
    IF value # 0 /\ (g.regIE \cap g.regIF) # {} THEN ARMRaiseIRQ(g) ELSE g

GBATestIRQ(g) ==
    IF g.regIME # 0 /\ (g.regIE \cap g.regIF) # {}
    THEN [g EXCEPT !.springIRQ = TRUE, !.nextEvent = 0]
    ELSE g

GBAHalt(g) == [g EXCEPT !.nextEvent = 0, !.halted = TRUE]

\* -------------------------------------------------------- timer registers

\* oldReload + ((cpu->cycles - lastEvent) >> shift), stored into a uint16_t
VisibleCounter(g, tm, shift) ==
    U16(tm.oldReload + U16(Shr(Sub32(g.cycles, tm.lastEvent), shift)))

GBATimerUpdateRegister(g, timer) ==
    LET currentTimer == g.timers[timer]
    IN  IF currentTimer.enable /\ ~currentTimer.countUp
        THEN [g EXCEPT
                !.tmcnt[timer] =
                    VisibleCounter(g, currentTimer, currentTimer.prescaleBits),
                !.ub = @ \/ SubOverflows(g.cycles, currentTimer.lastEvent)]
        ELSE g

GBATimerWriteTMCNT_LO(g, timer, reload) ==
    [g EXCEPT !.timers[timer].reload = reload]

\* control & 0x0003 -> prescaleBits
PrescaleBits(control) ==
    CASE control % 4 = 0 -> 0
      [] control % 4 = 1 -> 6
      [] control % 4 = 2 -> 8
      [] control % 4 = 3 -> 10

\* !!(control & (1 << n))
Bit(control, n) == (control \div Pow2(n)) % 2 = 1

\* off -> on branch of GBATimerWriteTMCNT_HI
TimerStart(g, timer) ==
    LET ct == g.timers[timer]
    IN  [g EXCEPT
            !.timers[timer].nextEvent =
                IF ~ct.countUp THEN Add32(g.cycles, ct.overflowInterval)
                ELSE INT_MAX,
            !.ub = @ \/ (~ct.countUp
                          /\ AddOverflows(g.cycles, ct.overflowInterval)),
            !.tmcnt[timer] = ct.reload,
            !.timers[timer].oldReload = ct.reload,
            !.timers[timer].lastEvent = 0,
            !.timersEnabled = @ \cup {timer}]

\* TimerStop that shifts by the prescale just written
TimerStopNewPrescale(g, timer, oldPrescale) ==
    LET ct == g.timers[timer]
    IN  [g EXCEPT
            !.tmcnt[timer] =
                IF ~ct.countUp THEN VisibleCounter(g, ct, ct.prescaleBits)
                ELSE @,
            !.ub = @ \/ (~ct.countUp /\ SubOverflows(g.cycles, ct.lastEvent)),
            !.timersEnabled = @ \ {timer}]

\* TimerStop that forgets gba->timersEnabled &= ~(1 << timer)
TimerStopKeepsBit(g, timer, oldPrescale) ==
    LET ct == g.timers[timer]
    IN  [g EXCEPT
            !.tmcnt[timer] =
                IF ~ct.countUp THEN VisibleCounter(g, ct, oldPrescale) ELSE @,
            !.ub = @ \/ (~ct.countUp /\ SubOverflows(g.cycles, ct.lastEvent))]

\* on -> off branch of GBATimerWriteTMCNT_HI
TimerStop(g, timer, oldPrescale) ==
    LET ct == g.timers[timer]
    IN  [g EXCEPT
            !.tmcnt[timer] =
                IF ~ct.countUp THEN VisibleCounter(g, ct, oldPrescale) ELSE @,
            !.ub = @ \/ (~ct.countUp /\ SubOverflows(g.cycles, ct.lastEvent)),
            !.timersEnabled = @ \ {timer}]

\* on -> on (or off -> off) with a new prescale, not count-up
TimerRescale(g, timer) ==
    LET ct == g.timers[timer]
    IN  [g EXCEPT
            !.timers[timer].nextEvent = Add32(ct.lastEvent, ct.overflowInterval),
            !.ub = @ \/ AddOverflows(ct.lastEvent, ct.overflowInterval)]

\* if (currentTimer->nextEvent < cpu->nextEvent) cpu->nextEvent = ...
PullNextEvent(g, timer) ==
    IF g.timers[timer].nextEvent < g.nextEvent
    THEN [g EXCEPT !.nextEvent = g.timers[timer].nextEvent]
    ELSE g

\* The stores of prescaleBits, countUp, doIrq, overflowInterval and enable.
TimerControl(g, timer, control) ==
    [g EXCEPT
        !.timers[timer].prescaleBits = PrescaleBits(control),
        !.timers[timer].countUp = Bit(control, 2),
        !.timers[timer].doIrq = Bit(control, 6),
        !.timers[timer].overflowInterval =
            (CounterModulus - g.timers[timer].reload)
                * Pow2(PrescaleBits(control)),
        !.timers[timer].enable = Bit(control, 7)]

\* The three-way branch on wasEnabled and enable.
TimerSwitch(g, timer, oldPrescale, wasEnabled) ==
    LET ct == g.timers[timer]
    IN  IF ~wasEnabled /\ ct.enable THEN TimerStart(g, timer)
        ELSE IF wasEnabled /\ ~ct.enable
             THEN TimerStop(g, timer, oldPrescale)
        ELSE IF ct.prescaleBits # oldPrescale /\ ~ct.countUp
             THEN TimerRescale(g, timer)
        ELSE g

GBATimerWriteTMCNT_HI(g, timer, control) ==
    With(GBATimerUpdateRegister(g, timer), LAMBDA g0 :
      With(TimerControl(g0, timer, control), LAMBDA g1 :
        With(TimerSwitch(g1, timer, g0.timers[timer].prescaleBits,
                         g0.timers[timer].enable), LAMBDA g2 :
          PullNextEvent(g2, timer))))

\* ---------------------------------------------------------------- timer bank

\* timer->nextEvent -= cycles; timer->lastEvent -= cycles
TimerAdvance(g, t, cyc) ==
    [g EXCEPT
        !.timers[t].nextEvent = Sub32(@, cyc),
        !.timers[t].lastEvent = Sub32(@, cyc),
        !.ub = @ \/ SubOverflows(g.timers[t].nextEvent, cyc)
                 \/ SubOverflows(g.timers[t].lastEvent, cyc)]

\* TimerSampleFIFO that does not look at chATimer and chBTimer
TimerSampleFIFOAnyTimer(g, t) ==
    LET a == g.audio
        chA == IF a.chALeft \/ a.chARight
               THEN <<[channel |-> 0, offset |-> g.timers[t].lastEvent]>>
               ELSE <<>>
        chB == IF a.chBLeft \/ a.chBRight
               THEN <<[channel |-> 1, offset |-> g.timers[t].lastEvent]>>
               ELSE <<>>
    IN  IF t \in {0, 1} /\ a.enable
        THEN [g EXCEPT !.samples = (@ \o chA) \o chB]
        ELSE g

\* if (gba->audio.enable) { ... GBAAudioSampleFIFO(&gba->audio, 0 or 1,
\* timer->lastEvent) ... }, in the blocks of timers 0 and 1 only
TimerSampleFIFO(g, t) ==
    LET a == g.audio
        chA == IF (a.chALeft \/ a.chARight) /\ a.chATimer = t
               THEN <<[channel |-> 0, offset |-> g.timers[t].lastEvent]>>
               ELSE <<>>
        chB == IF (a.chBLeft \/ a.chBRight) /\ a.chBTimer = t
               THEN <<[channel |-> 1, offset |-> g.timers[t].lastEvent]>>
               ELSE <<>>
    IN  IF t \in {0, 1} /\ a.enable
        THEN [g EXCEPT !.samples = (@ \o chA) \o chB]
        ELSE g

\* TimerOverflow that raises the IRQ whatever doIrq says
TimerOverflowAlwaysIrq(g, t) ==
    LET tm == g.timers[t]
    IN  With([g EXCEPT
                !.timers[t].lastEvent = tm.nextEvent,
                !.timers[t].nextEvent = Add32(tm.nextEvent, tm.overflowInterval),
                !.ub = @ \/ AddOverflows(tm.nextEvent, tm.overflowInterval),
                !.tmcnt[t] = tm.reload,
                !.timers[t].oldReload = tm.reload,
                !.fired = @ \cup {t}],
             LAMBDA g1 :
               With(GBARaiseIRQ(g1, IRQ_TIMER0 + t),
                    LAMBDA g2 : TimerSampleFIFO(g2, t)))

\* The overflow every timer block starts with: carry the slack, schedule the
\* next overflow, latch the reload, raise the IRQ, sample the FIFOs.
TimerOverflow(g, t) ==
    LET tm == g.timers[t]
    IN  With([g EXCEPT
                !.timers[t].lastEvent = tm.nextEvent,
                !.timers[t].nextEvent = Add32(tm.nextEvent, tm.overflowInterval),
                !.ub = @ \/ AddOverflows(tm.nextEvent, tm.overflowInterval),
                !.tmcnt[t] = tm.reload,
                !.timers[t].oldReload = tm.reload,
                !.fired = @ \cup {t}],
             LAMBDA g1 :
               With(IF tm.doIrq THEN GBARaiseIRQ(g1, IRQ_TIMER0 + t) ELSE g1,
                    LAMBDA g2 : TimerSampleFIFO(g2, t)))

\* if (timer->countUp) timer->nextEvent = INT_MAX
TimerOwnCountUp(g, t) ==
    IF g.timers[t].countUp THEN [g EXCEPT !.timers[t].nextEvent = INT_MAX] ELSE g

\* if (nextTimer->countUp) { ++io[TMnCNT_LO]; if (!io[...]) nextEvent = 0 }
TimerCascade(g, n) ==
    IF g.timers[n].countUp
    THEN LET word == U16(g.tmcnt[n] + 1)
         IN  [g EXCEPT
                !.tmcnt[n] = word,
                !.timers[n].nextEvent = IF word = 0 THEN 0 ELSE @,
                !.wrapped = IF word = 0 /\ g.timers[n].enable
                            THEN @ \cup {n} ELSE @]
    ELSE g

\* Each block takes and returns [g, nextEvent]: the machine and the local
\* nextEvent of GBATimersProcessEvents.
Timer0Block(a, cyc) ==
    IF ~a.g.timers[0].enable THEN a
    ELSE With(TimerAdvance(a.g, 0, cyc), LAMBDA g1 :
           With(IF g1.timers[0].nextEvent <= 0
                THEN With(TimerOverflow(g1, 0), LAMBDA o : TimerCascade(o, 1))
                ELSE g1,
                LAMBDA g2 : [g |-> g2, nextEvent |-> g2.timers[0].nextEvent]))

Timer1Block(a, cyc) ==
    IF ~a.g.timers[1].enable THEN a
    ELSE With(TimerAdvance(a.g, 1, cyc), LAMBDA g1 :
           With(IF g1.timers[1].nextEvent <= 0
                THEN With(TimerOverflow(g1, 1), LAMBDA o :
                       With(TimerOwnCountUp(o, 1), LAMBDA c :
                         TimerCascade(c, 2)))
                ELSE g1,
                LAMBDA g2 : [g |-> g2,
                             nextEvent |-> Min(g2.timers[1].nextEvent,
                                               a.nextEvent)]))

\* nextEvent = timer->nextEvent comes first in this block and in the next.
Timer2Block(a, cyc) ==
    IF ~a.g.timers[2].enable THEN a
    ELSE With(TimerAdvance(a.g, 2, cyc), LAMBDA g1 :
           With(IF g1.timers[2].nextEvent <= 0
                THEN With(TimerOverflow(g1, 2), LAMBDA o :
                       With(TimerOwnCountUp(o, 2), LAMBDA c :
                         TimerCascade(c, 3)))
                ELSE g1,
                LAMBDA g2 : [g |-> g2,
                             nextEvent |-> Min(g2.timers[2].nextEvent,
                                               g1.timers[2].nextEvent)]))

Timer3Block(a, cyc) ==
    IF ~a.g.timers[3].enable THEN a
    ELSE With(TimerAdvance(a.g, 3, cyc), LAMBDA g1 :
           With(IF g1.timers[3].nextEvent <= 0
                THEN With(TimerOverflow(g1, 3), LAMBDA o :
                       TimerOwnCountUp(o, 3))
                ELSE g1,
                LAMBDA g2 : [g |-> g2,
                             nextEvent |-> Min(g2.timers[3].nextEvent,
                                               g1.timers[3].nextEvent)]))

\* Returns [g, nextEvent]: the machine afterwards and the value returned.
GBATimersProcessEvents(g, cyc) ==
    IF g.timersEnabled # {}
    THEN With(Timer0Block([g |-> g, nextEvent |-> INT_MAX], cyc), LAMBDA a1 :
           With(Timer1Block(a1, cyc), LAMBDA a2 :
             With(Timer2Block(a2, cyc), LAMBDA a3 :
               Timer3Block(a3, cyc))))
    ELSE [g |-> g, nextEvent |-> INT_MAX]

\* ----------------------------------------------------------------- dispatcher

\* Video, Audio, DMA and SIO as the dispatcher sees them: each returns a
\* prediction, and Video may raise VBLANK.
VideoRaises(g, virq) == IF virq THEN GBARaiseIRQ(g, IRQ_VBLANK) ELSE g

\* SpringIRQ that leaves the latch set
SpringIRQKeepsLatch(g) ==
    IF g.springIRQ THEN ARMRaiseIRQ(g) ELSE g

\* if (gba->springIRQ) { ARMRaiseIRQ(cpu); gba->springIRQ = 0; }
SpringIRQ(g) ==
    IF g.springIRQ THEN [ARMRaiseIRQ(g) EXCEPT !.springIRQ = FALSE] ELSE g

\* One iteration of the do-while of GBAProcessEvents.  video and others are
\* what Video and the least of Audio, DMA and SIO return.  Returns the machine
\* afterwards, the cycles handed on and the timers' return value.
GBAProcessEventsBody(g, video, virq, others) ==
    LET cyc == g.cycles
    IN  With(SpringIRQ(g), LAMBDA g0 :
          With(VideoRaises(g0, virq), LAMBDA g1 :
            With(GBATimersProcessEvents(g1, cyc), LAMBDA tr :
              With([tr.g EXCEPT
                      !.cycles = Sub32(@, cyc),
                      !.nextEvent = Min(Min(Min(INT_MAX, video),
                                            tr.nextEvent), others)],
                   LAMBDA g3 :
                [g |-> IF g3.halted THEN [g3 EXCEPT !.cycles = g3.nextEvent]
                       ELSE g3,
                 cycles |-> cyc,
                 timersRet |-> tr.nextEvent]))))

\* while (cpu->cycles >= cpu->nextEvent)
LoopAgain(g) == g.cycles >= g.nextEvent

\* -------------------------------------------------------------------- actions

\* The machine variables take the values of g.
Store(g) ==
    /\ cycles' = g.cycles
    /\ nextEvent' = g.nextEvent
    /\ halted' = g.halted
    /\ timers' = g.timers
    /\ tmcnt' = g.tmcnt
    /\ regIE' = g.regIE
    /\ regIF' = g.regIF
    /\ regIME' = g.regIME
    /\ timersEnabled' = g.timersEnabled
    /\ springIRQ' = g.springIRQ
    /\ cpuIRQ' = g.irqs

\* A signed overflow is undefined: the build either wraps or traps.
Outcomes(g) == IF g.ub THEN {"wrap", "trap"} ELSE {"wrap"}

Trap ==
    /\ pc' = "aborted"
    /\ UNCHANGED <<cycles, nextEvent, halted, timers, tmcnt, regIE, regIF,
                   regIME, timersEnabled, springIRQ, iter, cpuIRQ, swept,
                   timersRet, othersRet, fired, pending, last, scen, ops,
                   hostVars, sampled, carried>>

\* An operation the running program issues between two dispatcher calls.
CpuOp(gAfter, name, arg, sc) ==
    /\ pc = "cpu"
    /\ ops < MaxOps
    /\ \E g \in {gAfter} : \E o \in Outcomes(g) :
          IF o = "trap" THEN Trap
          ELSE /\ Store(g)
               /\ last' = [op |-> name, arg |-> arg]
               /\ scen' = sc
               /\ ops' = ops + 1
               /\ UNCHANGED <<pc, iter, swept, timersRet, othersRet, fired,
                              pending, hostVars, sampled,
                              carried>>

WriteTMCNT_LO ==
    \E t \in TimerIds, r \in Reloads :
        CpuOp(GBATimerWriteTMCNT_LO(G, t, r), "WriteTMCNT_LO", t, NoScen)

\* The scenario starts when the write enables a disabled timer, not count-up.
Armed(t, g) ==
    IF ~timers[t].enable /\ g.timers[t].enable /\ ~g.timers[t].countUp
    THEN [phase |-> "armed", t |-> t, count |-> 0,
          ifBefore |-> (IRQ_TIMER0 + t) \in regIF, at |-> cycles]
    ELSE NoScen

WriteTMCNT_HI ==
    \E t \in TimerIds, c \in Controls :
        \E g \in {GBATimerWriteTMCNT_HI(G, t, c)} :
            CpuOp(g, "WriteTMCNT_HI", t, Armed(t, g))

\* A read of TMxCNT_LO: the register is refreshed, then read.
ReadTMCNT_LO ==
    \E t \in TimerIds :
        CpuOp(GBATimerUpdateRegister(G, t), "ReadTMCNT_LO", t,
              IF scen.phase = "armed" /\ scen.t = t
              THEN [scen EXCEPT !.phase = "read"] ELSE NoScen)

WriteIE ==
    \E v \in IEValues :
        CpuOp([GBAWriteIE(G, v) EXCEPT !.regIE = v], "WriteIE", 0, NoScen)

WriteIME ==
    \E v \in {0, 1} :
        CpuOp([GBAWriteIME(G, v) EXCEPT !.regIME = v], "WriteIME", v, NoScen)

RaiseIRQ ==
    \E k \in IRQKinds : CpuOp(GBARaiseIRQ(G, k), "GBARaiseIRQ", k, NoScen)

TestIRQ == CpuOp(GBATestIRQ(G), "GBATestIRQ", 0, NoScen)

Halt == CpuOp(GBAHalt(G), "GBAHalt", 0, NoScen)

\* The interpreter executes for d cycles; it starts nothing while an event is
\* due.
CPURun ==
    \E d \in Deltas :
        /\ cycles < nextEvent
        /\ CpuOp([G EXCEPT !.cycles = Add32(cycles, d),
                           !.ub = AddOverflows(cycles, d)],
                 "CPURun", 0,
                 IF scen.phase = "armed"
                    /\ d = timers[scen.t].overflowInterval
                 THEN [scen EXCEPT !.phase = "advanced"]
                 ELSE NoScen)

\* The iteration leaves every field of the machine as it found it.
Spins(g) ==
    /\ g.cycles = cycles /\ g.nextEvent = nextEvent /\ g.halted = halted
    /\ g.timers = timers /\ g.tmcnt = tmcnt /\ g.regIF = regIF
    /\ g.springIRQ = springIRQ

\* One iteration of GBAProcessEvents: the first when the interpreter finds
\* cycles >= nextEvent, the following ones while the loop condition holds.
\* After MaxIter iterations of one call only an iteration that changes
\* nothing is followed further.
ProcessEvents ==
    /\ \/ pc = "cpu" /\ cycles >= nextEvent
       \/ pc = "loop"
    /\ \E video \in Predictions, others \in Predictions,
          virq \in (IF halted THEN BOOLEAN ELSE {FALSE}) :
        \E r \in {GBAProcessEventsBody(G, video, virq, others)} :
          LET g == r.g
              first == pc = "cpu"
              n == IF first THEN 0 ELSE iter
          IN  /\ n >= MaxIter => Spins(g)
              /\ \E o \in Outcomes(g) :
                    IF o = "trap" THEN Trap
                    ELSE /\ Store(g)
                         /\ pc' = IF LoopAgain(g) THEN "loop" ELSE "cpu"
                         /\ iter' = IF n < MaxIter THEN n + 1 ELSE n
                         /\ swept' = r.cycles
                         /\ timersRet' = r.timersRet
                         /\ othersRet' = Min(video, others)
                         /\ fired' = g.fired
                         /\ pending' = g.wrapped \ g.fired
                         /\ last' = [op |-> "GBAProcessEvents",
                                     arg |-> IF first THEN 0
                                             ELSE IF last.arg = 1 THEN 2 ELSE 1]
                         /\ scen' =
                              IF scen.phase \in {"advanced", "running"}
                              THEN [scen EXCEPT
                                      !.count = IF scen.t \in g.fired
                                                THEN @ + 1 ELSE @,
                                      !.phase = IF LoopAgain(g)
                                                THEN "running" ELSE "done"]
                              ELSE NoScen
                         /\ sampled' = g.samples
                         /\ carried' = g.wrapped
                         /\ UNCHANGED <<ops, hostVars>>

\* The program drives the timers.
Next ==
    \/ WriteTMCNT_LO
    \/ WriteTMCNT_HI
    \/ ReadTMCNT_LO
    \/ Halt
    \/ CPURun
    \/ ProcessEvents

Spec == Init /\ [][Next]_vars

\* The program drives the interrupt controller, from any content of IE, IF,
\* IME and with the CPU halted or not.
IrqInit ==
    /\ Fresh
    /\ HostInit
    /\ cycles = 0
    /\ \E hn \in {<<FALSE, 0>>, <<FALSE, INT_MAX>>, <<TRUE, 0>>} :
          halted = hn[1] /\ nextEvent = hn[2]
    /\ timers = [t \in TimerIds |-> ZeroTimer]
    /\ tmcnt = [t \in TimerIds |-> 0]
    /\ regIE \in IEValues
    /\ regIF \in IEValues
    /\ regIME \in {0, 1}
    /\ timersEnabled = {}
    /\ springIRQ = FALSE

IrqNext ==
    \/ WriteIE
    \/ WriteIME
    \/ RaiseIRQ
    \/ TestIRQ
    \/ Halt
    \/ ProcessEvents

IrqSpec == IrqInit /\ [][IrqNext]_vars

\* The program has set up a cascade: timer k runs on the cycle clock and
\* overflows every cycle, timer k + 1 counts its overflows.  This is GBAInit
\* followed by the four register writes.
CascadeSetup(k) ==
    With(GBATimerWriteTMCNT_LO(
             [cycles |-> 0, nextEvent |-> 0, halted |-> FALSE,
              timers |-> [t \in TimerIds |-> ZeroTimer],
              tmcnt |-> [t \in TimerIds |-> 0], regIE |-> {},
              regIF |-> {}, regIME |-> 0, timersEnabled |-> {},
              springIRQ |-> FALSE, irqs |-> 0, ub |-> FALSE,
              fired |-> {}, wrapped |-> {}, audio |-> NoAudio,
              samples |-> <<>>],
             k, 65535), LAMBDA g1 :
      With(GBATimerWriteTMCNT_HI(g1, k, 128), LAMBDA g2 :
        With(GBATimerWriteTMCNT_LO(g2, k + 1, 65535), LAMBDA g3 :
          GBATimerWriteTMCNT_HI(g3, k + 1, 132))))

CascadeInit ==
    /\ Fresh
    /\ HostInit
    /\ \E k \in CascadePairs : \E g \in {CascadeSetup(k)} :
              /\ cycles = g.cycles
              /\ nextEvent = g.nextEvent
              /\ halted = g.halted
              /\ timers = g.timers
              /\ tmcnt = g.tmcnt
              /\ regIE = g.regIE
              /\ regIF = g.regIF
              /\ regIME = g.regIME
              /\ timersEnabled = g.timersEnabled
              /\ springIRQ = g.springIRQ

CascadeSpec == CascadeInit /\ [][Next]_vars

\* Sound is set up in every way, and the program has chained the four
\* timers: timer 0 overflows every cycle, timers 1, 2 and 3 each count the
\* overflows of the one before and overflow at the first.  The program then
\* runs and halts.
AudioConfigs ==
    [enable : BOOLEAN, chALeft : BOOLEAN, chARight : BOOLEAN,
     chATimer : {0, 1}, chBLeft : BOOLEAN, chBRight : BOOLEAN,
     chBTimer : {0, 1}]

ChainSetup ==
    With(CascadeSetup(0), LAMBDA g1 :
      With(GBATimerWriteTMCNT_LO(g1, 2, 65535), LAMBDA g2 :
        With(GBATimerWriteTMCNT_HI(g2, 2, 132), LAMBDA g3 :
          With(GBATimerWriteTMCNT_LO(g3, 3, 65535), LAMBDA g4 :
            GBATimerWriteTMCNT_HI(g4, 3, 132)))))

AudioInit ==
    /\ Fresh
    /\ cart = GBALoadROM(2)
    /\ patch = NoPatch
    /\ logger = DefaultLogger
    /\ logged = NothingLogged
    /\ audio \in AudioConfigs
    /\ \E g \in {ChainSetup} :
          /\ cycles = g.cycles
          /\ nextEvent = g.nextEvent
          /\ halted = g.halted
          /\ timers = g.timers
          /\ tmcnt = g.tmcnt
          /\ regIE = g.regIE
          /\ regIF = g.regIF
          /\ regIME = g.regIME
          /\ timersEnabled = g.timersEnabled
          /\ springIRQ = g.springIRQ

AudioNext ==
    \/ Halt
    \/ CPURun
    \/ ProcessEvents

AudioSpec == AudioInit /\ [][AudioNext]_vars

\* ------------------------------------------------------------------ cartridge

\* GBAApplyPatch that keeps the patched size although applyPatch failed
GBAApplyPatchKeepsSize(c, patchedSize, applied) ==
    IF patchedSize = 0 THEN c
    ELSE With([c EXCEPT !.rom = c.maps + 1,
                        !.maps = @ + 1,
                        !.mapped = @ \cup {c.maps + 1}],
              LAMBDA c1 :
                IF ~applied
                THEN [c1 EXCEPT !.mapped = @ \ {c1.rom}, !.rom = PristineRom,
                                !.romSize = patchedSize]
                ELSE [c1 EXCEPT !.romSize = patchedSize])

\* c is the cartridge state; patchedSize is what patch->outputSize returns and
\* applied what patch->applyPatch returns.
GBAApplyPatch(c, patchedSize, applied) ==
    IF patchedSize = 0 THEN c
    ELSE With([c EXCEPT !.rom = c.maps + 1,
                        !.maps = @ + 1,
                        !.mapped = @ \cup {c.maps + 1}],
              LAMBDA c1 :
                IF ~applied
                THEN [c1 EXCEPT !.mapped = @ \ {c1.rom}, !.rom = PristineRom]
                ELSE [c1 EXCEPT !.romSize = patchedSize])

ApplyPatch ==
    \E size \in PatchSizes, applied \in BOOLEAN :
        /\ pc = "cpu"
        /\ cart.maps < MaxPatches
        /\ cart' = GBAApplyPatch(cart, size, applied)
        /\ patch' = [outputSize |-> size, applyPatch |-> applied]
        /\ last' = [op |-> "GBAApplyPatch", arg |-> 0]
        /\ UNCHANGED <<cycles, nextEvent, halted, timers, tmcnt, regIE, regIF,
                       regIME, timersEnabled, springIRQ, pc, iter, cpuIRQ,
                       swept, timersRet, othersRet, fired, pending, scen, ops,
                       audio, sampled, carried, logger, logged>>

\* The front end loads a ROM and applies patches to it.
PatchInit ==
    /\ GBAInit
    /\ Fresh
    /\ \E size \in RomSizes : cart = GBALoadROM(size)
    /\ patch = NoPatch
    /\ audio = NoAudio
    /\ logger = DefaultLogger
    /\ logged = NothingLogged

PatchNext == ApplyPatch

PatchSpec == PatchInit /\ [][PatchNext]_vars

\* -------------------------------------------------------------------- logging

\* _GBAVLog with gba set: what the call does.  lg is the logging set-up.
GBAVLog(lg, level) ==
    IF lg.logHandler
    THEN [handled |-> TRUE, printed |-> FALSE, aborted |-> FALSE]
    ELSE IF level \notin lg.logLevel /\ level # "FATAL"
    THEN [handled |-> FALSE, printed |-> FALSE, aborted |-> FALSE]
    ELSE [handled |-> FALSE, printed |-> TRUE, aborted |-> level = "FATAL"]

\* The level GBAHitStub logs at.
StubLevel(lg) == IF lg.debugger THEN "STUB" ELSE "FATAL"

\* A log call or stub hit at the given level; entered tells whether
\* ARMDebuggerEnter was called.
LogCall(name, level, entered) ==
    /\ pc = "cpu"
    /\ \E r \in {GBAVLog(logger, level)} :
          /\ logged' = [level |-> level, handled |-> r.handled,
                        printed |-> r.printed, entered |-> entered]
          /\ pc' = IF r.aborted THEN "aborted" ELSE "cpu"
    /\ last' = [op |-> name, arg |-> 0]
    /\ UNCHANGED <<cycles, nextEvent, halted, timers, tmcnt, regIE, regIF,
                   regIME, timersEnabled, springIRQ, iter, cpuIRQ, swept,
                   timersRet, othersRet, fired, pending, scen, ops, cart,
                   patch, audio, sampled, carried, logger>>

Log == \E level \in LogLevels : LogCall("GBALog", level, FALSE)

HitStub == LogCall("GBAHitStub", StubLevel(logger), logger.debugger)

\* GBAAttachDebugger and GBADetachDebugger
SetDebugger ==
    \E attached \in BOOLEAN :
        /\ pc = "cpu"
        /\ logger' = [logger EXCEPT !.debugger = attached]
        /\ last' = [op |-> "GBAAttachDebugger", arg |-> 0]
        /\ UNCHANGED <<cycles, nextEvent, halted, timers, tmcnt, regIE, regIF,
                       regIME, timersEnabled, springIRQ, pc, iter, cpuIRQ,
                       swept, timersRet, othersRet, fired, pending, scen, ops,
                       cart, patch, audio, sampled, carried, logged>>

LogMasks ==
    {{}, {"STUB"}, {"INFO", "WARN", "ERROR", "FATAL"}, LogLevels}

\* The front end has set a log mask and perhaps a log handler; the program
\* logs and hits stubs, a debugger comes and goes.
LogInit ==
    /\ GBAInit
    /\ Fresh
    /\ cart = GBALoadROM(2)
    /\ patch = NoPatch
    /\ audio = NoAudio
    /\ logger \in [logLevel : LogMasks, logHandler : BOOLEAN,
                    debugger : {FALSE}]
    /\ logged = NothingLogged

LogNext ==
    \/ Log
    \/ HitStub
    \/ SetDebugger

LogSpec == LogInit /\ [][LogNext]_vars

\* --------------------------------------------------------------------- claims

Swept == last.op = "GBAProcessEvents" /\ pc # "aborted"

Running(t) == timers[t].enable /\ ~timers[t].countUp

\* C1: bit i of timersEnabled is set exactly when timers[i].enable is true.
C1_TimersEnabledMirrorsEnable ==
    \A i \in TimerIds : (i \in timersEnabled) <=> timers[i].enable

\* A write has just disabled a timer that had been started, another one is
\* still enabled.
C1_Witness ==
    /\ last.op = "WriteTMCNT_HI"
    /\ ~timers[last.arg].enable
    /\ timers[last.arg].nextEvent > 0
    /\ timersEnabled # {}

\* C2: after every sweep cpu.nextEvent is at most the nextEvent of every
\* enabled timer.
C2_NextEventIsMinimum ==
    Swept => \A t \in TimerIds :
                 timers[t].enable => nextEvent <= timers[t].nextEvent

\* C3: a call of GBAProcessEvents terminates, so its loop is never about to
\* run an iteration that leaves the machine exactly as it is (no subsystem
\* raising an IRQ); and on return cycles < nextEvent unless the CPU is
\* halted, in which case cycles == nextEvent.
C3_Terminates ==
    /\ ~(pc = "loop"
          /\ Spins(GBAProcessEventsBody(G, INT_MAX, FALSE, INT_MAX).g))
    /\ (Swept /\ pc = "cpu") =>
           IF halted THEN cycles = nextEvent ELSE cycles < nextEvent

\* C4: every enabled timer that is not count-up has
\* nextEvent == lastEvent + overflowInterval.
C4_RunningTimerNextEvent ==
    pc # "aborted" =>
        \A t \in TimerIds :
            Running(t) =>
                timers[t].nextEvent
                    = Add32(timers[t].lastEvent, timers[t].overflowInterval)

\* C5: every enabled count-up timer has nextEvent == INT_MAX, unless a cascade
\* wrap has just set it to 0 and its overflow is still to come.
C5_CountUpNextEvent ==
    pc # "aborted" =>
        \A t \in TimerIds :
            (timers[t].enable /\ timers[t].countUp /\ t \notin pending)
                => timers[t].nextEvent = INT_MAX

\* C6: a read of the counter right after the TMCNT_HI write that enabled the
\* timer (not count-up) returns the reload.
C6_ReadAfterEnable ==
    (scen.phase = "read" /\ pc # "aborted")
        => tmcnt[scen.t] = timers[scen.t].reload

\* C7: enable a disabled timer (not count-up), advance exactly its overflow
\* interval, run one dispatcher call: the timer has overflowed once, its IF
\* bit is set if and only if doIrq, the counter word is the reload.
C7_OneOverflow ==
    (scen.phase = "done" /\ pc # "aborted") =>
        /\ scen.count = 1
        /\ ~scen.ifBefore =>
              ((IRQ_TIMER0 + scen.t) \in regIF <=> timers[scen.t].doIrq)
        /\ tmcnt[scen.t] = timers[scen.t].reload

\* The scenario has run to its end for timer 3, enabled at cycles > 0 with
\* doIrq, and the call took a second iteration.
C7_Witness ==
    /\ scen.phase = "done"
    /\ scen.t = 3
    /\ timers[3].doIrq
    /\ scen.at > 0
    /\ last.arg # 0

\* C8: GBARaiseIRQ(k) sets IF bit k and clears halted, signals the CPU if and
\* only if IME != 0 and IE has bit k, and leaves IE and IME alone.
C8_RaiseIRQ ==
    [][(last'.op = "GBARaiseIRQ" /\ ops' # ops) =>
          /\ regIF' = regIF \cup {last'.arg}
          /\ halted' = FALSE
          /\ cpuIRQ' = (IF regIME # 0 /\ last'.arg \in regIE THEN 1 ELSE 0)
          /\ regIE' = regIE
          /\ regIME' = regIME]_vars

\* GBARaiseIRQ has set an IF bit that IE enables while IME is 0: the CPU is
\* not halted and has not been signalled.
C8_Witness ==
    /\ last.op = "GBARaiseIRQ"
    /\ last.arg \in regIE
    /\ regIME = 0
    /\ cpuIRQ = 0
    /\ ~halted
    /\ nextEvent = 0
    /\ Cardinality(regIF) > 1

\* C9: when a cascade wraps the counter of an enabled count-up timer, that
\* timer overflows in the same or the next iteration of the same call.
C9_CascadeNotDropped ==
    [][(last'.op = "GBAProcessEvents" /\ pc' # "aborted") =>
          /\ pending \subseteq fired'
          /\ pc' = "cpu" => pending' = {}]_vars

\* C10: the cycles value an iteration hands to the subsystems is never
\* negative.
C10_CyclesNonNegative == Swept => swept >= 0

\* C11: no operation clears a bit of IF, and a bit is added only by
\* GBARaiseIRQ: called by the program, by Video, or by the overflow of a timer
\* in a dispatcher iteration.
C11_IFNeverCleared ==
    [][/\ regIF \subseteq regIF'
       /\ regIF' # regIF =>
             \/ /\ last'.op = "GBARaiseIRQ"
                /\ regIF' = regIF \cup {last'.arg}
             \/ /\ last'.op = "GBAProcessEvents"
                /\ (regIF' \ regIF) \subseteq
                       ({IRQ_VBLANK} \cup {IRQ_TIMER0 + t : t \in fired'})]_vars

\* GBAWriteIE has signalled the CPU for a pending IRQ and IF still holds
\* several bits.
C11_Witness ==
    /\ last.op = "WriteIE"
    /\ cpuIRQ = 1
    /\ Cardinality(regIF) > 1

\* C12: GBAApplyPatch on a machine whose rom is the pristine ROM, with a patch
\* whose applyPatch returns false, leaves rom == pristineRom and romSize as it
\* was, and the buffer it mapped is unmapped again.
C12_FailedPatch ==
    [][(last'.op = "GBAApplyPatch"
          /\ cart.rom = PristineRom
          /\ patch'.outputSize # 0
          /\ ~patch'.applyPatch) =>
             /\ cart'.rom = PristineRom
             /\ cart'.romSize = cart.romSize
             /\ cart'.maps = cart.maps + 1
             /\ cart'.mapped = cart.mapped]_vars

\* A patch has failed on the pristine ROM after a buffer had been mapped for
\* it.
C12_Witness ==
    /\ last.op = "GBAApplyPatch"
    /\ patch.outputSize # 0
    /\ ~patch.applyPatch
    /\ cart.maps = 1
    /\ cart.rom = PristineRom
    /\ cart.romSize = cart.pristineRomSize

\* C13: GBATestIRQ sets springIRQ and cpu.nextEvent = 0 if IME != 0 and
\* IE & IF != 0, and leaves both alone otherwise; a dispatcher iteration that
\* finds the latch set signals the CPU once for it and clears it (Video may
\* signal once more, for the VBLANK it raises to a halted CPU); one that
\* finds it clear signals nothing for it.
C13_SpringIRQ ==
    [][/\ (last'.op = "GBATestIRQ" /\ ops' # ops) =>
             IF regIME # 0 /\ (regIE \cap regIF) # {}
             THEN springIRQ' /\ nextEvent' = 0
             ELSE springIRQ' = springIRQ /\ nextEvent' = nextEvent
       /\ (last'.op = "GBAProcessEvents" /\ pc' # "aborted"
             /\ timersEnabled = {}) =>
             /\ ~springIRQ'
             /\ cpuIRQ' \in
                   (IF halted
                    THEN {IF springIRQ THEN 1 ELSE 0,
                          IF springIRQ THEN 2 ELSE 1}
                    ELSE {IF springIRQ THEN 1 ELSE 0})]_vars

\* The first iteration of a call has signalled the running CPU for the latch
\* and nothing else, and has cleared the latch.
C13_Witness ==
    /\ last.op = "GBAProcessEvents"
    /\ last.arg = 0
    /\ ~halted
    /\ cpuIRQ = 1
    /\ regIME # 0
    /\ (regIE \cap regIF) # {}
    /\ ~springIRQ
    /\ IRQ_VBLANK \notin regIF

\* The GBAAudioSampleFIFO calls C14 expects of the overflow of timer t: one
\* for each FIFO that is routed and clocked by t, if sound is enabled, with
\* the slack of the overflow.
ExpectedSamples(t) ==
    IF t \in fired /\ audio.enable
    THEN (IF (audio.chALeft \/ audio.chARight) /\ audio.chATimer = t
          THEN <<[channel |-> 0, offset |-> timers[t].lastEvent]>>
          ELSE <<>>)
         \o
         (IF (audio.chBLeft \/ audio.chBRight) /\ audio.chBTimer = t
          THEN <<[channel |-> 1, offset |-> timers[t].lastEvent]>>
          ELSE <<>>)
    ELSE <<>>

\* C14: the FIFO sample calls of an iteration are those of the overflows of
\* timers 0 and 1 in it, each with an offset <= 0; the overflows of timers 2
\* and 3 and iterations without an overflow sample nothing.
C14_FIFOSampling ==
    Swept =>
        /\ sampled = ExpectedSamples(0) \o ExpectedSamples(1)
        /\ \A i \in 1..Len(sampled) : sampled[i].offset <= 0

\* All four timers have overflowed in one iteration, late; FIFO B was
\* sampled for timer 0 and FIFO A for timer 1.
C14_Witness ==
    /\ Swept
    /\ fired = TimerIds
    /\ Len(sampled) = 2
    /\ sampled[1].channel = 1
    /\ sampled[1].offset < 0
    /\ sampled[2].channel = 0

\* C15: a TMCNT_HI write that disables an enabled timer that is not count-up
\* leaves the counter word oldReload + ((cycles - lastEvent) >> p) mod 2^16,
\* p being the prescale shift before the write.
C15_DisableUsesOldPrescale ==
    [][(last'.op = "WriteTMCNT_HI" /\ ops' # ops
          /\ timers[last'.arg].enable
          /\ ~timers[last'.arg].countUp
          /\ ~timers'[last'.arg].enable) =>
             LET ct == timers[last'.arg]
             IN  tmcnt'[last'.arg] =
                     (ct.oldReload
                         + ((cycles - ct.lastEvent) \div Pow2(ct.prescaleBits)))
                     % CounterModulus]_vars

\* A write has disabled a timer and set prescale 0; the timer had run 64
\* cycles at prescale 6 from reload 0, and its counter word is 1.
C15_Witness ==
    /\ last.op = "WriteTMCNT_HI"
    /\ ~timers[last.arg].enable
    /\ timers[last.arg].prescaleBits = 0
    /\ timers[last.arg].overflowInterval = 65536
    /\ timers[last.arg].nextEvent > 65536
    /\ cycles = 64
    /\ tmcnt[last.arg] = 1

\* C16: a log call at FATAL level ends the process; a stub hit with no
\* debugger attached ends the process, one with a debugger attached is logged
\* at STUB level, enters the debugger and the process goes on.
C16_FatalTerminates ==
    /\ (last.op \in {"GBALog", "GBAHitStub"} /\ logged.level = "FATAL")
           => pc = "aborted"
    /\ last.op = "GBAHitStub" =>
           IF logger.debugger
           THEN logged.level = "STUB" /\ logged.entered /\ pc = "cpu"
           ELSE pc = "aborted"

\* C17: an enabled count-up timer that has a timer before it (1, 2 or 3)
\* overflows only in an iteration in which the cascade of the timer before it
\* took its counter word from 0xFFFF to 0.
C17_CountUpOverflowNeedsCarry ==
    Swept =>
        \A t \in TimerIds \ {0} :
            (t \in fired /\ timers[t].enable /\ timers[t].countUp)
                => t \in carried

\* C18: an iteration of the dispatcher leaves the counter word and the
\* nextEvent of every disabled timer as they were.
C18_DisabledTimerUntouched ==
    [][last'.op = "GBAProcessEvents" =>
          \A t \in TimerIds :
              ~timers[t].enable =>
                  /\ tmcnt'[t] = tmcnt[t]
                  /\ timers'[t].nextEvent = timers[t].nextEvent]_vars

\* C19: a TMCNT_HI write that disables a timer that was enabled in count-up
\* mode leaves the timer's counter word as it was.
C19_DisableCountUpKeepsCounter ==
    [][(last'.op = "WriteTMCNT_HI" /\ ops' # ops
          /\ timers[last'.arg].enable
          /\ timers[last'.arg].countUp
          /\ ~timers'[last'.arg].enable) =>
             tmcnt'[last'.arg] = tmcnt[last'.arg]]_vars

\* C20: whenever memory.rom is the pristine ROM, memory.romSize is the
\* pristine ROM's size.
C20_RomAndSizeAgree ==
    cart.rom = PristineRom => cart.romSize = cart.pristineRomSize

====
